---- MODULE Spec2Model ----
(***************************************************************************)
(* Model of the silkworm downloader executable (cmd/downloader.cpp): the   *)
(* start-up sequence of main, the stage loop with its forward and unwind   *)
(* passes over the two stages, the three worker threads and the exception  *)
(* handlers that decide the exit code.                                     *)
(***************************************************************************)
EXTENDS Integers, Sequences, FiniteSets, TLC

(* ---------------------------- bounds ----------------------------------- *)
\* highest block number a stage can hold in the store
MaxBlock == 1
\* largest value given to a command-line flag
MaxArg == 1
\* width of size_t in the model (the program's is 64)
SizeBits == 4
\* calls of Sentry::stop() the owner makes
MaxStops == 2

(* ------------------------ program constants ---------------------------- *)
\* std::array<Stage*, 2> stages
NStages == 2
\* defaults of the four test & measurement parameters
DefaultMaxBlocksPerMessage == 128
DefaultPerPeerMaxOutstandingRequests == 4
DefaultRequestDeadlineSeconds == 30
DefaultNoPeerDelayMilliseconds == 1000
\* chain ids of the three supported networks, and of two unsupported ones
kMainnetChainId == 1
kRopstenChainId == 3
kSepoliaChainId == 11155111
kRinkebyChainId == 4
kGoerliChainId == 5

SizeMod == 2 ^ SizeBits
StageIdx == 0 .. (NStages - 1)
Blocks == 0 .. MaxBlock
BadBlocks == {"badA", "badB"}
NoArg == <<>>
ArgValues == 1 .. MaxArg
Args == {NoArg} \cup {<<v>> : v \in ArgValues}
ChainIds == {kMainnetChainId, kRopstenChainId, kSepoliaChainId, kRinkebyChainId, kGoerliChainId}
Flags == {"max_blocks_per_req", "max_requests_per_peer", "request_deadline_s", "no_peer_delay_ms"}
\* command lines tried: no flag given, or all four given with one value
CommandLines == {[f \in Flags |-> NoArg]} \cup {[f \in Flags |-> <<v>>] : v \in ArgValues}
ThreadNames == {"message_receiving", "stats_receiving", "block_downloading"}
\* exit codes CLI::App::exit hands back for a ParseError: 0 for a help
\* request, the error's own code otherwise
CliExitCodes == {0, 109}

(* --------------------------- Stage::Result ----------------------------- *)
Statuses == {"Unspecified", "Done", "UnwindNeeded", "Error"}
None == <<>>
Some(v) == <<v>>
Value(o) == o[1]

MkResult(st, up, bb) == [status |-> st, unwind_point |-> up, bad_block |-> bb]

\* `Stage::Result result;` : the optionals are empty, the status enum is
\* left without a value, so any status may be read from it
DefaultResults == {MkResult(st, None, None) : st \in Statuses}

\* Stage::Result result{Status::Unspecified}
UnspecifiedResult == MkResult("Unspecified", None, None)

\* what a stage's forward can hand back
ForwardResults ==
    {MkResult("Done", None, None), MkResult("Error", None, None)}
      \cup {MkResult("UnwindNeeded", Some(u), Some(b)) : u \in Blocks, b \in BadBlocks}

\* what a stage's unwind_to can hand back
UnwindResults == {MkResult("Done", None, None), MkResult("Error", None, None)}

(* ----------------------- conversions and helpers ----------------------- *)
\* std::chrono durations, held in milliseconds
Seconds(n) == n * 1000
Milliseconds(n) == n

\* std::to_string of a non-negative integer: its decimal digits
RECURSIVE to_string(_)
to_string(n) == IF n < 10 THEN <<n>> ELSE to_string(n \div 10) \o <<n % 10>>

Min(a, b) == IF a <= b THEN a ELSE b
Last(s) == s[Len(s)]

\* the persisted head the node reports: hash and total difficulty of a block
HeadHash(n) == <<"hash", n>>
HeadTd(n) == 2 * n + 1

VARIABLES
    pc,                 \* position of main
    return_value,       \* int return_value
    thrown,             \* exception caught or escaping: "none", "std", "cli"
    cli,                \* the flags as given on the command line
    kMaxBlocksPerMessage, kPerPeerMaxOutstandingRequests,
    kRequestDeadline, kNoPeerDelay,          \* BodySequence statics
    requestDeadlineSeconds, noPeerDelayMilliseconds,
    logged,             \* the "BlockExchange parameter" log lines
    chain_id,           \* node_settings.chain_config->chain_id
    chain_identity,     \* ChainIdentity chain_identity
    db_open,            \* Db db constructed
    height,             \* store: highest block each stage has persisted
    head,               \* head hash, td and height read at start-up
    sentry,             \* SentryClient: created, status, hand_shaken, stopping
    block_exchange,     \* BlockExchange: created, stopping
    threads,            \* the three std::thread objects
    first_sync, result, last_stage,          \* locals of the stage loop
    i, lres,            \* loop index and local result of forward / unwind
    spawned,            \* order in which the threads were started
    fwd_log,            \* stage forward calls of the latest forward pass
    unw_log,            \* stage unwind_to calls of the latest unwind pass
    latest_pass,        \* which pass produced `result`
    unwind_req,         \* unwind point and bad block the forward pass asked for
    passes,             \* forward passes begun: 0, 1, 2 = more than one
    joined,             \* order in which the threads were joined
    \* --- SentryImpl (sentry.cpp) ---
    owner,              \* position of the thread that owns the Sentry
    rpc_server_,        \* rpc::Server: idle, running, shutdown, joined
    rlpx_task,          \* the co_spawned rlpx_server_.start: none, pending, running, ended
    task_ex,            \* exception the task completed with
    handled,            \* completion handler: no, returned, threw
    rlpx_server_task_,  \* std::promise<void>: unset, set
    stop_signal_,       \* cancellation_signal: [bound, emitted]
    shutdown_signals_,  \* signal_set wait and its handler
    context_pool_,      \* ServerContextPool: idle, running, stopped, joined
    stops,              \* calls of stop() so far
    stop_while_running  \* stop() was called while the task had not ended

svars == <<owner, rpc_server_, rlpx_task, task_ex, handled, rlpx_server_task_,
           stop_signal_, shutdown_signals_, context_pool_, stops,
           stop_while_running>>

vars == <<svars, pc, return_value, thrown, cli, kMaxBlocksPerMessage,
          kPerPeerMaxOutstandingRequests, kRequestDeadline, kNoPeerDelay,
          requestDeadlineSeconds, noPeerDelayMilliseconds, logged, chain_id,
          chain_identity, db_open, height, head, sentry, block_exchange,
          threads, first_sync, result, last_stage, i, lres, spawned, fwd_log,
          unw_log, latest_pass, unwind_req, passes, joined>>

tunables == <<kMaxBlocksPerMessage, kPerPeerMaxOutstandingRequests,
              kRequestDeadline, kNoPeerDelay, requestDeadlineSeconds,
              noPeerDelayMilliseconds>>
startup == <<cli, logged, chain_id, chain_identity, db_open, head>>
loopvars == <<first_sync, result, last_stage, i, lres>>
history == <<fwd_log, unw_log, latest_pass, unwind_req, passes>>
workers == <<sentry, block_exchange, threads, spawned, joined>>

(* ------------------------------ start-up ------------------------------- *)
NoException == [type |-> "none", code |-> "none"]

\* SentryImpl::SentryImpl: members as constructed
SentryConstructed ==
    /\ owner = "constructed"
    /\ rpc_server_ = "idle"
    /\ rlpx_task = "none"
    /\ task_ex = NoException
    /\ handled = "no"
    /\ rlpx_server_task_ = "unset"
    /\ stop_signal_ = [bound |-> FALSE, emitted |-> FALSE]
    /\ shutdown_signals_ = "none"
    /\ context_pool_ = "idle"
    /\ stops = 0
    /\ stop_while_running = FALSE

Init ==
    /\ SentryConstructed
    /\ pc = "add_options"
    /\ return_value = 0
    /\ thrown = "none"
    /\ cli = [f \in Flags |-> NoArg]
    /\ kMaxBlocksPerMessage = DefaultMaxBlocksPerMessage
    /\ kPerPeerMaxOutstandingRequests = DefaultPerPeerMaxOutstandingRequests
    /\ requestDeadlineSeconds = DefaultRequestDeadlineSeconds
    /\ noPeerDelayMilliseconds = DefaultNoPeerDelayMilliseconds
    /\ kRequestDeadline = Seconds(DefaultRequestDeadlineSeconds)
    /\ kNoPeerDelay = Milliseconds(DefaultNoPeerDelayMilliseconds)
    /\ logged = [f \in Flags |-> <<>>]
    /\ chain_id = 0
    /\ chain_identity = "unset"
    /\ db_open = FALSE
    /\ height \in [StageIdx -> Blocks]
    /\ head = None
    /\ sentry = [created |-> FALSE, status |-> None, hand_shaken |-> FALSE,
                 stopping |-> FALSE]
    /\ block_exchange = [created |-> FALSE, stopping |-> FALSE]
    /\ threads = [t \in ThreadNames |-> "none"]
    /\ first_sync = FALSE
    /\ result = UnspecifiedResult
    /\ last_stage = 0
    /\ i = 0
    /\ lres = UnspecifiedResult
    /\ spawned = <<>>
    /\ fwd_log = <<>>
    /\ unw_log = <<>>
    /\ latest_pass = "none"
    /\ unwind_req = None
    /\ passes = 0
    /\ joined = <<>>

\* a std::thread that was started and not joined is joinable
Joinable(st) == st \in {"running", "finished"}

\* return_value = 1 in the std::exception handler
ExitCodeOnException == 1

\* a handler that reports the exception and leaves return_value as it was
CatchWithoutExitCode ==
    /\ thrown' = "std"
    /\ return_value' = return_value
    /\ pc' = IF \E t \in ThreadNames : Joinable(threads[t])
               THEN "terminated" ELSE "returned"

\* An exception leaves the try block: the locals are destroyed on the way to
\* the handler, and the destructor of a joinable std::thread calls
\* std::terminate; otherwise the handler sets the exit code and main returns.
CatchStdException ==
    /\ thrown' = "std"
    /\ IF \E t \in ThreadNames : Joinable(threads[t])
         THEN pc' = "terminated" /\ return_value' = return_value
         ELSE pc' = "returned" /\ return_value' = ExitCodeOnException

\* the option bindings, then the two durations built from the int locals
AssignDurations ==
    /\ pc = "add_options"
    /\ kRequestDeadline' = Seconds(requestDeadlineSeconds)
    /\ kNoPeerDelay' = Milliseconds(noPeerDelayMilliseconds)
    /\ pc' = "parse"
    /\ UNCHANGED <<return_value, thrown, kMaxBlocksPerMessage,
                   kPerPeerMaxOutstandingRequests, requestDeadlineSeconds,
                   noPeerDelayMilliseconds, startup, height, workers,
                   loopvars, history>>
    /\ UNCHANGED svars

\* an option writes the variable it was bound to when the flag is given
Bound(arg, old) == IF arg = NoArg THEN old ELSE Value(arg)

ParseCommandLine ==
    /\ pc = "parse"
    /\ \E a \in CommandLines :
         /\ cli' = a
         /\ kMaxBlocksPerMessage' = Bound(a["max_blocks_per_req"], kMaxBlocksPerMessage)
         /\ kPerPeerMaxOutstandingRequests' =
                Bound(a["max_requests_per_peer"], kPerPeerMaxOutstandingRequests)
         /\ requestDeadlineSeconds' = Bound(a["request_deadline_s"], requestDeadlineSeconds)
         /\ noPeerDelayMilliseconds' = Bound(a["no_peer_delay_ms"], noPeerDelayMilliseconds)
    /\ pc' = "log_params"
    /\ UNCHANGED <<return_value, thrown, kRequestDeadline, kNoPeerDelay, logged,
                   chain_id, chain_identity, db_open, head, height, workers,
                   loopvars, history>>
    /\ UNCHANGED svars

\* catch (const CLI::ParseError& ex) { return_value = app.exit(ex); }
ParseError ==
    /\ pc = "parse"
    /\ thrown' = "cli"
    /\ \E code \in CliExitCodes : return_value' = code
    /\ pc' = "returned"
    /\ UNCHANGED <<tunables, startup, height, workers, loopvars, history>>
    /\ UNCHANGED svars

LogParameters ==
    /\ pc = "log_params"
    /\ logged' = [f \in Flags |->
          CASE f = "max_blocks_per_req" -> to_string(kMaxBlocksPerMessage)
            [] f = "max_requests_per_peer" -> to_string(kPerPeerMaxOutstandingRequests)
            [] f = "request_deadline_s" -> to_string(requestDeadlineSeconds)
            [] f = "no_peer_delay_ms" -> to_string(noPeerDelayMilliseconds)]
    /\ pc' = "preflight"
    /\ UNCHANGED <<return_value, thrown, tunables, cli, chain_id, chain_identity,
                   db_open, head, height, workers, loopvars, history>>
    /\ UNCHANGED svars

\* cmd::run_preflight_checklist: the chain configuration is in place after it
RunPreflightChecklist ==
    /\ pc = "preflight"
    /\ \E c \in ChainIds : chain_id' = c
    /\ pc' = "chain_identity"
    /\ UNCHANGED <<return_value, thrown, tunables, cli, logged, chain_identity,
                   db_open, head, height, workers, loopvars, history>>
    /\ UNCHANGED svars

IsSupportedChainWithRinkeby(c) ==
    c \in {kMainnetChainId, kRopstenChainId, kSepoliaChainId, kRinkebyChainId}

IsSupportedChain(c) ==
    c = kMainnetChainId \/ c = kRopstenChainId \/ c = kSepoliaChainId

ChainIdentityFor(c) ==
    CASE c = kMainnetChainId -> "kMainnetIdentity"
      [] c = kRopstenChainId -> "kRopstenIdentity"
      [] c = kSepoliaChainId -> "kSepoliaIdentity"
      [] OTHER -> "unset"

SelectChainIdentity ==
    /\ pc = "chain_identity"
    /\ IsSupportedChain(chain_id)
    /\ chain_identity' = ChainIdentityFor(chain_id)
    /\ pc' = "open_db"
    /\ UNCHANGED <<return_value, thrown, tunables, cli, logged, chain_id,
                   db_open, head, height, workers, loopvars, history>>
    /\ UNCHANGED svars

\* throw std::logic_error("Chain id=... not supported")
UnsupportedChain ==
    /\ pc = "chain_identity"
    /\ ~IsSupportedChain(chain_id)
    /\ CatchStdException
    /\ UNCHANGED <<tunables, startup, height, workers, loopvars, history>>
    /\ UNCHANGED svars

OpenDb ==
    /\ pc = "open_db"
    /\ db_open' = TRUE
    /\ pc' = "read_head"
    /\ UNCHANGED <<return_value, thrown, tunables, cli, logged, chain_id,
                   chain_identity, head, height, workers, loopvars, history>>
    /\ UNCHANGED svars

\* HeaderRetrieval: head hash, total difficulty and height of the store
ReadHead ==
    /\ pc = "read_head"
    /\ head' = Some([hash |-> HeadHash(height[0]), td |-> HeadTd(height[0]),
                      height |-> height[0]])
    /\ pc' = "create_sentry"
    /\ UNCHANGED <<return_value, thrown, tunables, cli, logged, chain_id,
                   chain_identity, db_open, height, workers, loopvars, history>>
    /\ UNCHANGED svars

CreateSentry ==
    /\ pc = "create_sentry"
    /\ sentry' = [sentry EXCEPT !.created = TRUE]
    /\ pc' = "set_status"
    /\ UNCHANGED <<return_value, thrown, tunables, startup, height,
                   block_exchange, threads, spawned, joined, loopvars, history>>
    /\ UNCHANGED svars

\* a status that always announces the genesis block
StatusOfGenesis(hd, ci) == [hash |-> HeadHash(0), td |-> HeadTd(0), chain |-> ci]

\* sentry.set_status(head_hash, head_td, chain_identity)
StatusMessage(hd, ci) == [hash |-> hd.hash, td |-> hd.td, chain |-> ci]

SetStatus ==
    /\ pc = "set_status"
    /\ sentry' = [sentry EXCEPT !.status = Some(StatusMessage(Value(head), chain_identity))]
    /\ pc' = "hand_shake"
    /\ UNCHANGED <<return_value, thrown, tunables, startup, height,
                   block_exchange, threads, spawned, joined, loopvars, history>>
    /\ UNCHANGED svars

HandShake ==
    /\ pc = "hand_shake"
    /\ sentry' = [sentry EXCEPT !.hand_shaken = TRUE]
    /\ pc' = "spawn_message_receiving"
    /\ UNCHANGED <<return_value, thrown, tunables, startup, height,
                   block_exchange, threads, spawned, joined, loopvars, history>>
    /\ UNCHANGED svars

Spawn(t, next) ==
    /\ threads' = [threads EXCEPT ![t] = "running"]
    /\ spawned' = Append(spawned, t)
    /\ pc' = next
    /\ UNCHANGED <<return_value, thrown, tunables, startup, height, sentry,
                   block_exchange, joined, loopvars, history>>

SpawnMessageReceiving ==
    /\ pc = "spawn_message_receiving"
    /\ Spawn("message_receiving", "spawn_stats_receiving")
    /\ UNCHANGED svars

SpawnStatsReceiving ==
    /\ pc = "spawn_stats_receiving"
    /\ Spawn("stats_receiving", "create_block_exchange")
    /\ UNCHANGED svars

CreateBlockExchange ==
    /\ pc = "create_block_exchange"
    /\ block_exchange' = [block_exchange EXCEPT !.created = TRUE]
    /\ pc' = "spawn_block_downloading"
    /\ UNCHANGED <<return_value, thrown, tunables, startup, height, sentry,
                   threads, spawned, joined, loopvars, history>>
    /\ UNCHANGED svars

SpawnBlockDownloading ==
    /\ pc = "spawn_block_downloading"
    /\ Spawn("block_downloading", "init_stage_loop")
    /\ UNCHANGED svars

InitStageLoop ==
    /\ pc = "init_stage_loop"
    /\ first_sync' = TRUE
    /\ result' = UnspecifiedResult
    /\ last_stage' = 0
    /\ pc' = "fwd_begin"
    /\ UNCHANGED <<return_value, thrown, tunables, startup, height, workers,
                   i, lres, history>>
    /\ UNCHANGED svars

(* ------------------------------- stages -------------------------------- *)
\* Stage::forward: the stage persists up to some block at or above the one it
\* holds and reports Done, Error or UnwindNeeded with a point and a bad block
StageForward(h) ==
    {[res |-> r, height |-> nh] : r \in ForwardResults, nh \in h .. MaxBlock}

\* Stage::unwind_to(point, bad_block): on success nothing above point is left
StageUnwindTo(h, point) ==
    {[res |-> MkResult("Done", None, None), height |-> Min(h, point)],
     [res |-> MkResult("Error", None, None), height |-> h]}

(* ----------------------------- stage loop ------------------------------ *)
\* for (size_t i = 0; ...
ForwardFirstIndex == 0
\* ... i < N; ...
ForwardLoopCond(k) == k < NStages
ForwardTruncatesOnError(r) == r.status = "Error"
\* if (result.status == Status::UnwindNeeded) return {result, i};
ForwardTruncates(r) == r.status = "UnwindNeeded"
UnwindLoopCondNonNegative(k) == k >= 0
\* for (size_t i = last_stage; i <= 0; --i)
UnwindLoopCond(k) == k <= 0
Decrement(k) == (k - 1) % SizeMod
\* if (result.status == Status::Error) break;
UnwindBreaks(r) == r.status = "Error"
\* if (result.status == Status::UnwindNeeded) in main
NeedsUnwind(r) == r.status = "UnwindNeeded"
NextFirstSyncKept(fs) == fs
\* first_sync = false;
NextFirstSync(fs) == FALSE
LoopContinuesUnlessUnwind(r) == r.status # "UnwindNeeded"
LoopContinuesWhileDone(r) == r.status = "Done"
\* while (result.status != Status::Error)
LoopContinues(r) == r.status # "Error"

\* std::tie(result, last_stage) = forward(...) on return of the pass
ReturnForward(r, idx) ==
    /\ result' = r
    /\ last_stage' = idx
    /\ latest_pass' = "forward"
    /\ unwind_req' = IF r.status = "UnwindNeeded"
                       THEN Some([point |-> Value(r.unwind_point),
                                  bad |-> Value(r.bad_block), last |-> idx])
                       ELSE None
    /\ pc' = "check_unwind"
    /\ lres' = UnspecifiedResult
    /\ i' = 0

\* result = unwind(...) on return of the pass
ReturnUnwind(r) ==
    /\ result' = r
    /\ latest_pass' = "unwind"
    /\ pc' = "clear_first_sync"
    /\ lres' = UnspecifiedResult
    /\ i' = 0

ForwardBegin ==
    /\ pc = "fwd_begin"
    /\ \E d \in DefaultResults : lres' = d
    /\ i' = ForwardFirstIndex
    /\ fwd_log' = <<>>
    /\ unw_log' = <<>>
    /\ latest_pass' = "none"
    /\ unwind_req' = None
    /\ passes' = Min(passes + 1, 2)
    /\ pc' = "fwd_test"
    /\ UNCHANGED <<return_value, thrown, tunables, startup, height, workers,
                   first_sync, result, last_stage>>
    /\ UNCHANGED svars

ForwardTest ==
    /\ pc = "fwd_test"
    /\ IF ForwardLoopCond(i)
         THEN /\ pc' = "fwd_call"
              /\ UNCHANGED <<result, last_stage, latest_pass, unwind_req, i, lres>>
         ELSE ReturnForward(lres, NStages - 1)
    /\ UNCHANGED <<return_value, thrown, tunables, startup, height, workers,
                   first_sync, fwd_log, unw_log, passes>>
    /\ UNCHANGED svars

ForwardCall ==
    /\ pc = "fwd_call"
    /\ i \in StageIdx
    /\ \E out \in StageForward(height[i]) :
         /\ height' = [height EXCEPT ![i] = out.height]
         /\ fwd_log' = Append(fwd_log, [stage |-> i, first_sync |-> first_sync,
                                        res |-> out.res])
         /\ IF ForwardTruncates(out.res)
              THEN ReturnForward(out.res, i)
              ELSE /\ lres' = out.res
                   /\ i' = i + 1
                   /\ pc' = "fwd_test"
                   /\ UNCHANGED <<result, last_stage, latest_pass, unwind_req>>
    /\ UNCHANGED <<return_value, thrown, tunables, startup, workers,
                   first_sync, unw_log, passes>>
    /\ UNCHANGED svars

CheckUnwind ==
    /\ pc = "check_unwind"
    /\ pc' = IF NeedsUnwind(result) THEN "unw_begin" ELSE "clear_first_sync"
    /\ UNCHANGED <<return_value, thrown, tunables, startup, height, workers,
                   loopvars, history>>
    /\ UNCHANGED svars

UnwindBegin ==
    /\ pc = "unw_begin"
    /\ \E d \in DefaultResults : lres' = d
    /\ i' = last_stage
    /\ unw_log' = <<>>
    /\ pc' = "unw_test"
    /\ UNCHANGED <<return_value, thrown, tunables, startup, height, workers,
                   first_sync, result, last_stage, fwd_log, latest_pass,
                   unwind_req, passes>>
    /\ UNCHANGED svars

UnwindTest ==
    /\ pc = "unw_test"
    /\ IF UnwindLoopCond(i)
         THEN pc' = "unw_call" /\ UNCHANGED <<result, latest_pass, i, lres>>
         ELSE ReturnUnwind(lres)
    /\ UNCHANGED <<return_value, thrown, tunables, startup, height, workers,
                   first_sync, last_stage, fwd_log, unw_log, unwind_req, passes>>
    /\ UNCHANGED svars

UnwindCall ==
    /\ pc = "unw_call"
    /\ i \in StageIdx
    /\ \E out \in StageUnwindTo(height[i], Value(result.unwind_point)) :
         /\ height' = [height EXCEPT ![i] = out.height]
         /\ unw_log' = Append(unw_log, [stage |-> i,
                                        point |-> Value(result.unwind_point),
                                        bad |-> Value(result.bad_block),
                                        res |-> out.res])
         /\ IF UnwindBreaks(out.res)
              THEN ReturnUnwind(out.res)
              ELSE /\ lres' = out.res
                   /\ i' = Decrement(i)
                   /\ pc' = "unw_test"
                   /\ UNCHANGED <<result, latest_pass>>
    /\ UNCHANGED <<return_value, thrown, tunables, startup, workers,
                   first_sync, last_stage, fwd_log, unwind_req, passes>>
    /\ UNCHANGED svars

ClearFirstSync ==
    /\ pc = "clear_first_sync"
    /\ first_sync' = NextFirstSync(first_sync)
    /\ pc' = "loop_cond"
    /\ UNCHANGED <<return_value, thrown, tunables, startup, height, workers,
                   result, last_stage, i, lres, history>>
    /\ UNCHANGED svars

LoopCond ==
    /\ pc = "loop_cond"
    /\ pc' = IF LoopContinues(result) THEN "fwd_begin" ELSE "loop_ended"
    /\ UNCHANGED <<return_value, thrown, tunables, startup, height, workers,
                   loopvars, history>>
    /\ UNCHANGED svars

(* ------------------------------ shutdown ------------------------------- *)
\* block_exchange.stop();  // signal exiting
StopBlockExchange ==
    /\ pc = "loop_ended"
    /\ block_exchange' = [block_exchange EXCEPT !.stopping = TRUE]
    /\ pc' = "join_message_receiving"
    /\ UNCHANGED <<return_value, thrown, tunables, startup, height, sentry,
                   threads, spawned, joined, loopvars, history>>
    /\ UNCHANGED svars

\* std::thread::join returns once the thread's function has returned
Join(t, next) ==
    /\ threads[t] = "finished"
    /\ threads' = [threads EXCEPT ![t] = "joined"]
    /\ joined' = Append(joined, t)
    /\ pc' = next
    /\ UNCHANGED <<return_value, thrown, tunables, startup, height, sentry,
                   block_exchange, spawned, loopvars, history>>

JoinMessageReceiving ==
    /\ pc = "join_message_receiving"
    /\ Join("message_receiving", "join_stats_receiving")
    /\ UNCHANGED svars

JoinStatsReceiving ==
    /\ pc = "join_stats_receiving"
    /\ Join("stats_receiving", "join_block_downloading")
    /\ UNCHANGED svars

JoinBlockDownloading ==
    /\ pc = "join_block_downloading"
    /\ Join("block_downloading", "return")
    /\ UNCHANGED svars

Return ==
    /\ pc = "return"
    /\ pc' = "returned"
    /\ UNCHANGED <<return_value, thrown, tunables, startup, height, workers,
                   loopvars, history>>
    /\ UNCHANGED svars

\* the steps of the try block that can throw a std::exception
ThrowPoints == {"preflight", "open_db", "read_head", "create_sentry",
                "set_status", "hand_shake", "create_block_exchange",
                "fwd_call", "unw_call"}

Throw ==
    /\ pc \in ThrowPoints
    /\ CatchStdException
    /\ UNCHANGED <<tunables, startup, height, workers, loopvars, history>>
    /\ UNCHANGED svars

(* --------------------- worker threads, environment --------------------- *)
Alive == pc \notin {"returned", "terminated"}

\* a sentry loop runs until the sentry client is stopping
SentryLoopExit(t) ==
    /\ Alive
    /\ sentry.stopping
    /\ threads' = [threads EXCEPT ![t] = "finished"]
    /\ UNCHANGED <<pc, return_value, thrown, tunables, startup, height, sentry,
                   block_exchange, spawned, joined, loopvars, history>>

MessageReceivingExit ==
    /\ threads["message_receiving"] = "running"
    /\ SentryLoopExit("message_receiving")
    /\ UNCHANGED svars

StatsReceivingExit ==
    /\ threads["stats_receiving"] = "running"
    /\ SentryLoopExit("stats_receiving")
    /\ UNCHANGED svars

\* the block exchange's loop runs until stop() was called on it
BlockDownloadingExit ==
    /\ Alive
    /\ threads["block_downloading"] = "running"
    /\ block_exchange.stopping
    /\ threads' = [threads EXCEPT !["block_downloading"] = "finished"]
    /\ UNCHANGED <<pc, return_value, thrown, tunables, startup, height, sentry,
                   block_exchange, spawned, joined, loopvars, history>>
    /\ UNCHANGED svars

\* the transport to the sentry is cancelled from outside
SentryCancelled ==
    /\ Alive
    /\ sentry.created
    /\ ~sentry.stopping
    /\ sentry' = [sentry EXCEPT !.stopping = TRUE]
    /\ UNCHANGED <<pc, return_value, thrown, tunables, startup, height,
                   block_exchange, threads, spawned, joined, loopvars, history>>
    /\ UNCHANGED svars

\* stop() is requested on the block exchange while the stage loop runs
ExternalStop ==
    /\ Alive
    /\ block_exchange.created
    /\ ~block_exchange.stopping
    /\ block_exchange' = [block_exchange EXCEPT !.stopping = TRUE]
    /\ UNCHANGED <<pc, return_value, thrown, tunables, startup, height, sentry,
                   threads, spawned, joined, loopvars, history>>
    /\ UNCHANGED svars

(* ---------------------- SentryImpl (sentry.cpp) ------------------------ *)
dlvars == <<pc, return_value, thrown, tunables, startup, height, workers,
            loopvars, history>>

\* what the RLPx server task can complete with
Cancelled == [type |-> "system_error", code |-> "operation_canceled"]
TaskFailures == {[type |-> "system_error", code |-> "connection_reset"],
                 [type |-> "runtime_error", code |-> "none"]}

RethrowUnlessSystemError(ex) ==
    IF ex.type = "system_error" THEN "returned" ELSE "thrown"

\* rethrow_unless_cancelled: only a system_error is caught, and it is thrown
\* again unless its code is operation_canceled
rethrow_unless_cancelled(ex) ==
    IF ex.type = "system_error"
      THEN IF ex.code # "operation_canceled" THEN "thrown" ELSE "returned"
      ELSE "thrown"

CancellationUnbound(sig) == FALSE

\* bind_cancellation_slot(stop_signal_.slot(), ...): an emitted signal reaches
\* the task through the slot its completion handler was bound to
CancellationRequested(sig) == sig.bound /\ sig.emitted

FutureReadyAlways(p) == TRUE

\* rlpx_server_task_.get_future().wait() returns once the promise has a value
FutureReady(p) == p = "set"

\* rpc_server_.shutdown()
Shutdown(st) == IF st = "running" THEN "shutdown" ELSE st

\* start(): rpc_server_.build_and_start()
StartRpcServer ==
    /\ owner = "constructed"
    /\ rpc_server_' = "running"
    /\ owner' = "start_co_spawn"
    /\ UNCHANGED <<rlpx_task, task_ex, handled, rlpx_server_task_, stop_signal_,
                   shutdown_signals_, context_pool_, stops, stop_while_running,
                   dlvars>>

\* start(): co_spawn of rlpx_server_.start with the completion handler bound
\* to the slot of stop_signal_
StartCoSpawn ==
    /\ owner = "start_co_spawn"
    /\ rlpx_task' = "pending"
    /\ stop_signal_' = [stop_signal_ EXCEPT !.bound = TRUE]
    /\ owner' = "start_signals"
    /\ UNCHANGED <<rpc_server_, task_ex, handled, rlpx_server_task_,
                   shutdown_signals_, context_pool_, stops, stop_while_running,
                   dlvars>>

\* start(): setup_shutdown_on_signals: async_wait on SIGINT and SIGTERM
StartSetupSignals ==
    /\ owner = "start_signals"
    /\ shutdown_signals_' = "waiting"
    /\ owner' = "start_pool"
    /\ UNCHANGED <<rpc_server_, rlpx_task, task_ex, handled, rlpx_server_task_,
                   stop_signal_, context_pool_, stops, stop_while_running,
                   dlvars>>

\* start(): context_pool_.start(), then start() returns
StartContextPool ==
    /\ owner = "start_pool"
    /\ context_pool_' = "running"
    /\ owner' = "started"
    /\ UNCHANGED <<rpc_server_, rlpx_task, task_ex, handled, rlpx_server_task_,
                   stop_signal_, shutdown_signals_, stops, stop_while_running,
                   dlvars>>

\* the owner calls stop(): rpc_server_.shutdown()
OwnerStopShutdown ==
    /\ owner = "started"
    /\ stops < MaxStops
    /\ rpc_server_' = Shutdown(rpc_server_)
    /\ stops' = stops + 1
    /\ stop_while_running' = (stop_while_running \/ rlpx_task \in {"pending", "running"})
    /\ owner' = "stop_emit"
    /\ UNCHANGED <<rlpx_task, task_ex, handled, rlpx_server_task_, stop_signal_,
                   shutdown_signals_, context_pool_, dlvars>>

\* the owner's stop(): stop_signal_.emit(cancellation_type::all)
OwnerStopEmit ==
    /\ owner = "stop_emit"
    /\ stop_signal_' = [stop_signal_ EXCEPT !.emitted = TRUE]
    /\ owner' = "started"
    /\ UNCHANGED <<rpc_server_, rlpx_task, task_ex, handled, rlpx_server_task_,
                   shutdown_signals_, context_pool_, stops, stop_while_running,
                   dlvars>>

\* SIGINT or SIGTERM arrives: the handler runs on the pool and calls stop()
SignalStopShutdown ==
    /\ shutdown_signals_ = "waiting"
    /\ context_pool_ = "running"
    /\ rpc_server_' = Shutdown(rpc_server_)
    /\ stops' = stops + 1
    /\ stop_while_running' = (stop_while_running \/ rlpx_task \in {"pending", "running"})
    /\ shutdown_signals_' = "stop_emit"
    /\ UNCHANGED <<owner, rlpx_task, task_ex, handled, rlpx_server_task_,
                   stop_signal_, context_pool_, dlvars>>

SignalStopEmit ==
    /\ shutdown_signals_ = "stop_emit"
    /\ stop_signal_' = [stop_signal_ EXCEPT !.emitted = TRUE]
    /\ shutdown_signals_' = "handled"
    /\ UNCHANGED <<owner, rpc_server_, rlpx_task, task_ex, handled,
                   rlpx_server_task_, context_pool_, stops, stop_while_running,
                   dlvars>>

\* the pool runs the spawned coroutine
TaskRuns ==
    /\ rlpx_task = "pending"
    /\ context_pool_ = "running"
    /\ rlpx_task' = "running"
    /\ UNCHANGED <<owner, rpc_server_, task_ex, handled, rlpx_server_task_,
                   stop_signal_, shutdown_signals_, context_pool_, stops,
                   stop_while_running, dlvars>>

\* the cancellation reaches the task: it ends with operation_canceled
TaskCancelled ==
    /\ rlpx_task = "running"
    /\ context_pool_ = "running"
    /\ CancellationRequested(stop_signal_)
    /\ rlpx_task' = "ended"
    /\ task_ex' = Cancelled
    /\ UNCHANGED <<owner, rpc_server_, handled, rlpx_server_task_, stop_signal_,
                   shutdown_signals_, context_pool_, stops, stop_while_running,
                   dlvars>>

\* the task ends on its own with another exception
TaskFails ==
    /\ rlpx_task = "running"
    /\ context_pool_ = "running"
    /\ \E ex \in TaskFailures : task_ex' = ex
    /\ rlpx_task' = "ended"
    /\ UNCHANGED <<owner, rpc_server_, handled, rlpx_server_task_, stop_signal_,
                   shutdown_signals_, context_pool_, stops, stop_while_running,
                   dlvars>>

\* rlpx_server_task_completion: rethrow_unless_cancelled(ex_ptr), then
\* rlpx_server_task_.set_value()
TaskCompletion ==
    /\ rlpx_task = "ended"
    /\ handled = "no"
    /\ IF rethrow_unless_cancelled(task_ex) = "thrown"
         THEN handled' = "threw" /\ UNCHANGED rlpx_server_task_
         ELSE handled' = "returned" /\ rlpx_server_task_' = "set"
    /\ UNCHANGED <<owner, rpc_server_, rlpx_task, task_ex, stop_signal_,
                   shutdown_signals_, context_pool_, stops, stop_while_running,
                   dlvars>>

\* the owner calls join()
JoinBegin ==
    /\ owner = "started"
    /\ owner' = "join_rpc"
    /\ UNCHANGED <<rpc_server_, rlpx_task, task_ex, handled, rlpx_server_task_,
                   stop_signal_, shutdown_signals_, context_pool_, stops,
                   stop_while_running, dlvars>>

\* join(): rpc_server_.join() returns once the server was shut down
JoinRpcServer ==
    /\ owner = "join_rpc"
    /\ rpc_server_ = "shutdown"
    /\ rpc_server_' = "joined"
    /\ owner' = "join_wait"
    /\ UNCHANGED <<rlpx_task, task_ex, handled, rlpx_server_task_, stop_signal_,
                   shutdown_signals_, context_pool_, stops, stop_while_running,
                   dlvars>>

\* join(): rlpx_server_task_.get_future().wait()
JoinWaitTask ==
    /\ owner = "join_wait"
    /\ FutureReady(rlpx_server_task_)
    /\ owner' = "join_pool_stop"
    /\ UNCHANGED <<rpc_server_, rlpx_task, task_ex, handled, rlpx_server_task_,
                   stop_signal_, shutdown_signals_, context_pool_, stops,
                   stop_while_running, dlvars>>

\* join(): context_pool_.stop()
JoinStopPool ==
    /\ owner = "join_pool_stop"
    /\ context_pool_' = "stopped"
    /\ owner' = "join_pool_join"
    /\ UNCHANGED <<rpc_server_, rlpx_task, task_ex, handled, rlpx_server_task_,
                   stop_signal_, shutdown_signals_, stops, stop_while_running,
                   dlvars>>

\* join(): context_pool_.join(), then join() returns
JoinPool ==
    /\ owner = "join_pool_join"
    /\ context_pool_' = "joined"
    /\ owner' = "join_returned"
    /\ UNCHANGED <<rpc_server_, rlpx_task, task_ex, handled, rlpx_server_task_,
                   stop_signal_, shutdown_signals_, stops, stop_while_running,
                   dlvars>>

SentryInit ==
    /\ Init
    /\ height = [st \in StageIdx |-> 0]

\* steps a running thread takes by itself once they are possible
OwnerProgress ==
    \/ StartRpcServer \/ StartCoSpawn \/ StartSetupSignals \/ StartContextPool
    \/ OwnerStopEmit \/ JoinRpcServer \/ JoinWaitTask \/ JoinStopPool
    \/ JoinPool

PoolProgress == SignalStopEmit \/ TaskRuns \/ TaskCancelled \/ TaskCompletion

SentryNext ==
    \/ StartRpcServer \/ StartCoSpawn \/ StartSetupSignals \/ StartContextPool
    \/ OwnerStopShutdown \/ OwnerStopEmit \/ SignalStopShutdown
    \/ SignalStopEmit \/ TaskRuns \/ TaskCancelled \/ TaskFails
    \/ TaskCompletion \/ JoinBegin \/ JoinRpcServer \/ JoinWaitTask
    \/ JoinStopPool \/ JoinPool

SentrySpec == SentryInit /\ [][SentryNext]_vars

\* the owner, the signal handler and the pool's threads keep running: a step
\* of theirs that stays possible is taken; calls of stop() and join(), signals
\* and failures of the task are not forced
FairSentrySpec ==
    SentrySpec /\ WF_vars(OwnerProgress) /\ WF_vars(PoolProgress)

Next ==
    \/ AssignDurations \/ ParseCommandLine \/ ParseError \/ LogParameters
    \/ RunPreflightChecklist \/ SelectChainIdentity \/ UnsupportedChain
    \/ OpenDb \/ ReadHead \/ CreateSentry \/ SetStatus \/ HandShake
    \/ SpawnMessageReceiving \/ SpawnStatsReceiving \/ CreateBlockExchange
    \/ SpawnBlockDownloading \/ InitStageLoop
    \/ ForwardBegin \/ ForwardTest \/ ForwardCall \/ CheckUnwind
    \/ UnwindBegin \/ UnwindTest \/ UnwindCall \/ ClearFirstSync \/ LoopCond
    \/ StopBlockExchange \/ JoinMessageReceiving \/ JoinStatsReceiving
    \/ JoinBlockDownloading \/ Return \/ Throw
    \/ MessageReceivingExit \/ StatsReceivingExit \/ BlockDownloadingExit
    \/ SentryCancelled \/ ExternalStop

Spec == Init /\ [][Next]_vars

(* ------------------------------ properties ----------------------------- *)
HasError(log) == \E k \in 1 .. Len(log) : log[k].res.status = "Error"
PassReturned == latest_pass \in {"forward", "unwind"}

\* C1: after a forward pass truncated at stage `last`, an unwind pass in which
\* no unwind_to returned Error has called unwind_to on last, last-1, ..., 0, in
\* that order and once each, with the unwind point and bad block of the
\* UnwindNeeded result.
C1_UnwindReverseOrder ==
    (latest_pass = "unwind" /\ ~HasError(unw_log)) =>
        LET r == Value(unwind_req) IN
          /\ Len(unw_log) = r.last + 1
          /\ \A k \in 1 .. Len(unw_log) :
               /\ unw_log[k].stage = r.last + 1 - k
               /\ unw_log[k].point = r.point
               /\ unw_log[k].bad = r.bad

\* C2: when the loop starts a forward pass after a pass that asked to unwind to
\* U from stage `last`, no stage 0..last holds a block above U.
C2_NoStateAboveUnwindPoint ==
    (pc = "fwd_begin" /\ latest_pass = "unwind") =>
        \A s \in 0 .. Value(unwind_req).last :
            height[s] <= Value(unwind_req).point

\* C3: a forward pass calls the stages in index order from 0, makes no call
\* after a stage returned UnwindNeeded and returns that stage's index; with no
\* UnwindNeeded it calls all N stages and returns N-1.
C3_ForwardInOrder ==
    /\ Len(fwd_log) <= NStages
    /\ \A k \in 1 .. Len(fwd_log) : fwd_log[k].stage = k - 1
    /\ \A k \in 1 .. Len(fwd_log) - 1 : fwd_log[k].res.status # "UnwindNeeded"
    /\ PassReturned =>
         /\ Len(fwd_log) >= 1
         /\ IF Last(fwd_log).res.status = "UnwindNeeded"
              THEN last_stage = Last(fwd_log).stage
              ELSE Len(fwd_log) = NStages /\ last_stage = NStages - 1

C3_Witness ==
    /\ pc = "check_unwind"
    /\ Len(fwd_log) = 1
    /\ fwd_log[1].res.status = "UnwindNeeded"
    /\ last_stage = 0

\* C4: an unwind_to that returns Error is the last call of its unwind pass, the
\* pass returns that Error result, and the loop ends without another forward
\* pass.
C4_UnwindErrorAborts ==
    /\ \A k \in 1 .. Len(unw_log) - 1 : unw_log[k].res.status # "Error"
    /\ (latest_pass = "unwind" /\ HasError(unw_log)) => result = Last(unw_log).res
    /\ HasError(unw_log) =>
         pc \in {"clear_first_sync", "loop_cond", "loop_ended",
                 "join_message_receiving", "join_stats_receiving",
                 "join_block_downloading", "return", "returned"}

C4_Witness ==
    /\ pc = "loop_ended"
    /\ HasError(unw_log)
    /\ result.status = "Error"

\* C5: at the loop test the result is the one of the latest pass (the unwind
\* pass when the forward pass reported UnwindNeeded, else the forward pass);
\* the loop starts another forward pass when its status is not Error, and it
\* is left exactly when the status is Error.
C5_LoopUntilError ==
    [][/\ (pc = "loop_cond" /\ pc' # pc) =>
            /\ (latest_pass = "unwind") <=> (Last(fwd_log).res.status = "UnwindNeeded")
            /\ latest_pass = "forward" => result = Last(fwd_log).res
            /\ IF result.status # "Error"
                 THEN pc' = "fwd_begin"
                 ELSE pc' = "loop_ended"
       /\ (pc' = "loop_ended" /\ pc # "loop_ended") =>
            (pc = "loop_cond" /\ result.status = "Error")]_vars

C5_Witness ==
    /\ pc = "fwd_begin"
    /\ latest_pass = "forward"
    /\ \A k \in 1 .. Len(fwd_log) : fwd_log[k].res.status = "Done"
    /\ Len(fwd_log) = NStages

\* C6: every stage forward call of the first forward pass gets first_sync =
\* true, every call of a later pass gets false.
C6_FirstSyncOnlyFirstPass ==
    /\ \A k \in 1 .. Len(fwd_log) : fwd_log[k].first_sync = (passes = 1)
    /\ pc = "fwd_call" => first_sync = (passes = 1)

C6_Witness ==
    /\ passes = 2
    /\ Len(fwd_log) = NStages
    /\ ~fwd_log[1].first_sync

\* C7: when stop() was requested and the stages do not report Error, the loop
\* is left at the next loop test.
C7_StopLeavesLoop ==
    [][(pc = "loop_cond" /\ block_exchange.stopping /\ pc' # pc) =>
          pc' = "loop_ended"]_vars

\* C8: whenever a std::exception was thrown inside the try block, main returns
\* exit code 1.
C8_ExceptionExitsWithOne ==
    thrown = "std" => (pc = "returned" /\ return_value = 1)

C10_FlagsReachTunables ==
    pc \notin {"add_options", "parse", "log_params"} =>
        /\ cli["max_blocks_per_req"] # NoArg =>
             /\ kMaxBlocksPerMessage = Value(cli["max_blocks_per_req"])
             /\ logged["max_blocks_per_req"] = to_string(kMaxBlocksPerMessage)
        /\ cli["max_requests_per_peer"] # NoArg =>
             /\ kPerPeerMaxOutstandingRequests = Value(cli["max_requests_per_peer"])
             /\ logged["max_requests_per_peer"] = to_string(kPerPeerMaxOutstandingRequests)
        /\ cli["request_deadline_s"] # NoArg =>
             /\ kRequestDeadline = Seconds(Value(cli["request_deadline_s"]))
             /\ logged["request_deadline_s"] = to_string(kRequestDeadline \div 1000)
        /\ cli["no_peer_delay_ms"] # NoArg =>
             /\ kNoPeerDelay = Milliseconds(Value(cli["no_peer_delay_ms"]))
             /\ logged["no_peer_delay_ms"] = to_string(kNoPeerDelay)

\* C11: set_status (with the persisted head hash, total difficulty and the
\* chain identity) comes before hand_shake, hand_shake before the two sentry
\* threads, the block-exchange thread after both, and no stage forward before
\* all three threads were started.
C11_StartupOrder ==
    /\ sentry.hand_shaken => sentry.status # None
    /\ (sentry.status # None /\ passes = 0) =>
         Value(sentry.status) = [hash |-> HeadHash(height[0]),
                                 td |-> HeadTd(height[0]),
                                 chain |-> ChainIdentityFor(chain_id)]
    /\ spawned # <<>> => sentry.hand_shaken
    /\ \E n \in 0 .. 3 :
         spawned = SubSeq(<<"message_receiving", "stats_receiving",
                            "block_downloading">>, 1, n)
    /\ (passes > 0 \/ fwd_log # <<>>) => Len(spawned) = 3

C11_Witness ==
    /\ pc = "fwd_call"
    /\ passes = 1
    /\ Len(spawned) = 3
    /\ sentry.hand_shaken
    /\ Value(sentry.status).hash = HeadHash(1)

\* C13: after a forward pass in which some stage returned Error, the result
\* of the pass has status Error and the loop does not begin another forward
\* pass.
C13_ForwardErrorEndsLoop ==
    HasError(fwd_log) =>
        /\ pc # "fwd_begin"
        /\ latest_pass = "forward" => result.status = "Error"

\* C14: the unwind loop never calls a stage outside 0..N-1, also after its
\* index wrapped below zero, and makes at most N calls before it returns.
C14_UnwindIndexInRange ==
    /\ pc = "unw_call" => i \in StageIdx
    /\ \A k \in 1 .. Len(unw_log) : unw_log[k].stage \in StageIdx
    /\ Len(unw_log) <= NStages
    /\ pc = "unw_test" => (i \in StageIdx \/ i = SizeMod - 1)

C14_Witness ==
    /\ pc = "unw_test"
    /\ i = SizeMod - 1
    /\ Len(unw_log) = 1

\* C15: an unwind pass calls unwind_to at least once and returns the result of
\* the last unwind_to it called.
C15_UnwindResultFromStage ==
    latest_pass = "unwind" =>
        /\ Len(unw_log) >= 1
        /\ result = Last(unw_log).res

\* C16: when main blocks in join on a worker thread, that worker's component
\* has been signalled to stop.
C16_StopBeforeJoin ==
    /\ pc = "join_message_receiving" => sentry.stopping
    /\ pc = "join_stats_receiving" => sentry.stopping
    /\ pc = "join_block_downloading" => block_exchange.stopping

C12_OnlyCancellationIsSwallowed ==
    /\ handled = "returned" => (task_ex = Cancelled /\ rlpx_server_task_ = "set")
    /\ handled = "threw" => (task_ex # Cancelled /\ rlpx_server_task_ = "unset")
    /\ rlpx_server_task_ = "set" => handled = "returned"

C12_Witness ==
    /\ handled = "threw"
    /\ task_ex.type = "system_error"
    /\ task_ex.code = "connection_reset"
    /\ rlpx_server_task_ = "unset"

C19_JoinOrder ==
    /\ context_pool_ \in {"stopped", "joined"} =>
         (rpc_server_ = "joined" /\ rlpx_server_task_ = "set")
    /\ owner \in {"join_pool_stop", "join_pool_join", "join_returned"} =>
         (rpc_server_ = "joined" /\ rlpx_server_task_ = "set" /\ rlpx_task = "ended")
    /\ owner = "join_returned" => context_pool_ = "joined"
    /\ (rlpx_task \in {"pending", "running"} \/ rlpx_server_task_ = "unset") =>
         (owner # "join_returned" /\ context_pool_ \in {"idle", "running"})

C19_Witness ==
    /\ owner = "join_returned"
    /\ context_pool_ = "joined"
    /\ rlpx_server_task_ = "set"

====
